---- MODULE Spec2Model ----
(***************************************************************************)
(* Model of the branch-aware deployment pipeline construct PDKPipeline     *)
(* (packages/pipeline/src/pdk-pipeline.ts) and of the feature-branch       *)
(* fan-out FeatureBranches (packages/pipeline/src/feature-branches.ts).    *)
(* The sample file of OpenApiDefinition and the documentation build script *)
(* of packages/type-safe-api have their own actions and specifications.    *)
(*                                                                         *)
(* Strings are sequences of UTF-16 code units, so that the regular         *)
(* expression of normalizeBranchName is computed character by character.   *)
(* The JavaScript value `undefined` is the tuple Undefined, which is no    *)
(* string; an absent array is UndefinedList.                               *)
(***************************************************************************)
EXTENDS Integers, Sequences, FiniteSets, TLC

(***************************************************************************)
(* Bounds of the model.                                                    *)
(***************************************************************************)
MaxLen == 3
MaxStages == 2
MaxRuns == 2
MaxAttempts == 2

(***************************************************************************)
(* JavaScript values.                                                      *)
(***************************************************************************)
Undefined == <<-1>>
UndefinedList == <<Undefined>>
EmptyString == <<>>

\* JavaScript truthiness of a string-or-undefined value: !x is true of
\* undefined and of "".
Truthy(x) == x # Undefined /\ x # EmptyString

\* JavaScript truthiness of an array-or-undefined value: [] is truthy.
TruthyList(l) == l # UndefinedList

\* a || b on string-or-undefined operands.
Or(a, b) == IF Truthy(a) THEN a ELSE b

(***************************************************************************)
(* The strings the model uses, as code units.                              *)
(***************************************************************************)
\* "mainline"
DEFAULT_BRANCH_NAME == <<109, 97, 105, 110, 108, 105, 110, 101>>
\* "main"
Main == <<109, 97, 105, 110>>
\* "feature/x"
FeatureX == <<102, 101, 97, 116, 117, 114, 101, 47, 120>>
\* "feature/foo_1"
FeatureFoo1 == <<102, 101, 97, 116, 117, 114, 101, 47, 102, 111, 111, 95, 49>>
\* "feature-foo-1"
FeatureFoo1Normalized ==
  <<102, 101, 97, 116, 117, 114, 101, 45, 102, 111, 111, 45, 49>>
\* "feature"
Feature == <<102, 101, 97, 116, 117, 114, 101>>
\* "Demo"
Demo == <<68, 101, 109, 111>>
\* "arn"
Arn == <<97, 114, 110>>
\* "o/r"
OwnerAndName == <<111, 47, 114>>

\* PDKPipeline.ALL_BRANCHES = [""]
ALL_BRANCHES == <<EmptyString>>

\* Code units the bounded strings are built from: '-', '/', '_', '0', 'A',
\* 'z' (members and non-members of the class [a-zA-Z0-9-], at its borders).
Alphabet == {45, 47, 95, 48, 65, 122}

\* All strings over Alphabet of length at most n.
StringsUpTo(n) == UNION {[1..k -> Alphabet] : k \in 0..n}

(***************************************************************************)
(* PDKPipeline.normalizeBranchName                                         *)
(***************************************************************************)
\* The character class [a-zA-Z0-9-] of the regular expression.
InClass(c) ==
  \/ c \in 97..122
  \/ c \in 65..90
  \/ c \in 48..57
  \/ c = 45

\* A mutant: the regular expression without the g flag replaces the first
\* match only.
NormalizeFirstOnly(branchName) ==
  [i \in 1..Len(branchName) |->
     IF /\ ~InClass(branchName[i])
        /\ \A j \in 1..(i - 1) : InClass(branchName[j])
     THEN 45 ELSE branchName[i]]

\* branchName.replace(/[^a-zA-Z0-9-]/g, "-")
normalizeBranchName(branchName) ==
  [i \in 1..Len(branchName) |->
     IF InClass(branchName[i]) THEN branchName[i] ELSE 45]


(***************************************************************************)
(* State.                                                                  *)
(***************************************************************************)
VARIABLES
  BRANCH,                 \* process.env.BRANCH
  rootAspects,            \* the aspects registered on the root of the tree
  call,                   \* the last call of a static method, with its result
  status,                 \* "new", "constructed" or "failed" (constructor threw)
  error,                  \* the message of the Error the constructor threw
  attached,               \* super(scope, id) has added the construct to the tree
  props,                  \* the PDKPipelineProps given to the constructor
  node,                   \* this.node, as far as tryGetContext sees it
  codeRepository,         \* this.codeRepository: "undefined", "created", "imported"
  removalPolicy,          \* the removal policy applied to a created repository
  source,                 \* the CodePipelineSource: its kind and its branch
  accessLogsEncryption,   \* encryption of AccessLogsBucket
  artifactEncryption,     \* encryption of ArtifactsBucket
  artifactKey,            \* the Key "ArtifactKey" exists
  synthEnv,               \* env.BRANCH of the Synth step, Undefined without env
  sonarCodeScannerConfig, \* this.sonarCodeScannerConfig is set
  branchNamePrefixes,     \* this.branchNamePrefixes
  defaultBranchName,      \* this.defaultBranchName
  repositoryName,         \* this.repositoryName
  classifiedDefault,      \* isDefaultBranch as the constructor evaluated it
  featureBranches,        \* the FeatureBranches construct and its projects
  stackTags,              \* tags the constructor added to Stack.of(this)
  cloneUrlOutput,         \* the CfnOutput "CodeRepositoryGRCUrl" exists
  stages,                 \* the stages given to codePipeline.addStage, in order
  returned,               \* the StageDeployment the last addStage returned
  built,                  \* codePipeline.buildPipeline() has run
  sonarCodeScanner,       \* the SonarCodeScanner construct exists
  suppressions,           \* the rule pairs given to NagSuppressions, in order
  buildLog,               \* the steps buildPipeline has performed, in order
  openApiFile,            \* the file at openApiSpecificationPath on disk
  openApiLog,             \* the syntheses of OpenApiDefinition so far
  docsMode,               \* what the runtime does with an unhandled rejection
  docsMappings,           \* the packages that have a .jsii file
  docsMain,               \* the promise of main(): "notStarted", "resolved",
                          \* "rejected"
  docsTasks,              \* the per-(language, package) callbacks of main
  docsUnhandled,          \* the callbacks whose promise rejected unhandled
  docsCaught,             \* the catch handler has logged an error
  docsExit                \* "running", or the exit status "0" or "1"

vars ==
  <<BRANCH, rootAspects, call, status, error, attached, props, node,
    codeRepository,
    removalPolicy, source, accessLogsEncryption, artifactEncryption,
    artifactKey, synthEnv, sonarCodeScannerConfig, branchNamePrefixes,
    defaultBranchName, repositoryName, classifiedDefault, featureBranches,
    stackTags, cloneUrlOutput, stages, returned, built, sonarCodeScanner,
    suppressions, buildLog, openApiFile, openApiLog, docsMode,
    docsMappings, docsMain, docsTasks, docsUnhandled, docsCaught, docsExit>>

openApiVars == <<openApiFile, openApiLog>>

docsVars ==
  <<docsMode, docsMappings, docsMain, docsTasks, docsUnhandled, docsCaught,
    docsExit>>

pipelineVars ==
  <<status, error, attached, props, node, codeRepository,
    removalPolicy, source, accessLogsEncryption, artifactEncryption,
    artifactKey, synthEnv, sonarCodeScannerConfig, branchNamePrefixes,
    defaultBranchName, repositoryName, classifiedDefault, featureBranches,
    stackTags, cloneUrlOutput, stages, returned, built, sonarCodeScanner,
    suppressions, buildLog>>

(***************************************************************************)
(* Construct nodes: a node is known by the value its tryGetContext gives   *)
(* for the key "defaultBranchName"; an absent node has defined = FALSE.    *)
(***************************************************************************)
NoNode == [defined |-> FALSE, defaultBranchName |-> Undefined]
NodeWith(c) == [defined |-> TRUE, defaultBranchName |-> c]

\* node.tryGetContext("defaultBranchName")
tryGetContext(n) == n.defaultBranchName

\* props.node && props.node.tryGetContext("defaultBranchName")
NodeContext(p) == IF p.node.defined THEN tryGetContext(p.node) ELSE Undefined

(***************************************************************************)
(* PDKPipeline.isDefaultBranch and PDKPipeline.getBranchPrefix             *)
(***************************************************************************)
\* static readonly defaultBranchName = DEFAULT_BRANCH_NAME
PDKPipeline_defaultBranchName == DEFAULT_BRANCH_NAME

\* A mutant: without the early return for an absent BRANCH.
isDefaultBranchNoEarlyReturn(p) ==
  Or(p.defaultBranchName, Or(NodeContext(p), PDKPipeline_defaultBranchName))
    = BRANCH

\* A mutant: the context of the node is not consulted.
isDefaultBranchNoContext(p) ==
  IF ~Truthy(BRANCH)
  THEN TRUE
  ELSE Or(p.defaultBranchName, PDKPipeline_defaultBranchName) = BRANCH

isDefaultBranch(p) ==
  IF ~Truthy(BRANCH)
  THEN TRUE
  ELSE LET name ==
             Or(p.defaultBranchName,
                Or(NodeContext(p), PDKPipeline_defaultBranchName))
       IN  name = BRANCH

\* A mutant: the prefix carries the raw branch name.
getBranchPrefixRaw(p) ==
  IF isDefaultBranch(p)
  THEN EmptyString
  ELSE BRANCH \o <<45>>

\* isDefaultBranch(props) ? "" : normalizeBranchName(process.env.BRANCH!) + "-"
getBranchPrefix(p) ==
  IF isDefaultBranch(p)
  THEN EmptyString
  ELSE normalizeBranchName(BRANCH) \o <<45>>

(***************************************************************************)
(* Inputs.                                                                 *)
(***************************************************************************)
EnvValues == {Undefined, EmptyString, DEFAULT_BRANCH_NAME, Main, FeatureX}
ContextValues == {Undefined, Main}
DefaultBranchNames == {Undefined, Main, DEFAULT_BRANCH_NAME}
Nodes == {NoNode} \cup {NodeWith(c) : c \in ContextValues}
IsDefaultBranchPropsSet == [node : Nodes, defaultBranchName : DefaultBranchNames]
BranchNameInputs == StringsUpTo(MaxLen) \cup {FeatureFoo1, FeatureX}

(***************************************************************************)
(* Calls of the static methods.                                            *)
(***************************************************************************)
NoCall ==
  [method |-> "none", branchName |-> Undefined,
   props |-> [node |-> NoNode, defaultBranchName |-> Undefined],
   string |-> Undefined, boolean |-> FALSE]

CallNormalizeBranchName ==
  /\ \E branchName \in BranchNameInputs :
       call' = [NoCall EXCEPT !.method = "normalizeBranchName",
                              !.branchName = branchName,
                              !.string = normalizeBranchName(branchName)]
  /\ UNCHANGED <<BRANCH, rootAspects, pipelineVars, openApiVars, docsVars>>

CallIsDefaultBranch ==
  /\ \E p \in IsDefaultBranchPropsSet :
       call' = [NoCall EXCEPT !.method = "isDefaultBranch",
                              !.props = p,
                              !.boolean = isDefaultBranch(p)]
  /\ UNCHANGED <<BRANCH, rootAspects, pipelineVars, openApiVars, docsVars>>

CallGetBranchPrefix ==
  /\ \E p \in IsDefaultBranchPropsSet :
       call' = [NoCall EXCEPT !.method = "getBranchPrefix",
                              !.props = p,
                              !.string = getBranchPrefix(p)]
  /\ UNCHANGED <<BRANCH, rootAspects, pipelineVars, openApiVars, docsVars>>

(***************************************************************************)
(* PDKPipeline.constructor: the decisions it takes.                        *)
(***************************************************************************)
NeitherMessage == "Either repositoryName or codestarConnectionArn must be provided"
OwnerAndNameMessage ==
  "repositoryOwnerAndName is required when using codestarConnectionArn"
\* constructs refuses a second child of the same id in one scope
DuplicateMessage == "There is already a Construct with name"

\* A mutant: the first check reads repositoryOwnerAndName.
MissingRepositoryWrongProp(p) ==
  ~Truthy(p.repositoryName) /\ ~Truthy(p.repositoryOwnerAndName)

\* !props.repositoryName && !props.codestarConnectionArn
MissingRepository(p) ==
  ~Truthy(p.repositoryName) /\ ~Truthy(p.codestarConnectionArn)

\* A mutant: the second check is skipped when a repository name is given.
MissingOwnerAndNameUnlessHosted(p) ==
  /\ ~Truthy(p.repositoryName)
  /\ Truthy(p.codestarConnectionArn)
  /\ ~Truthy(p.repositoryOwnerAndName)

\* props.codestarConnectionArn && !props.repositoryOwnerAndName
MissingOwnerAndName(p) ==
  Truthy(p.codestarConnectionArn) /\ ~Truthy(p.repositoryOwnerAndName)

\* A mutant: the configured default takes precedence over the environment.
BranchDefaultFirst(p) ==
  Or(p.defaultBranchName, Or(BRANCH, DEFAULT_BRANCH_NAME))

\* process.env.BRANCH || props.defaultBranchName || DEFAULT_BRANCH_NAME
Branch(p) == Or(BRANCH, Or(p.defaultBranchName, DEFAULT_BRANCH_NAME))

\* A mutant: the connection takes precedence over the repository name.
SourceKindConnectionFirst(p) ==
  IF Truthy(p.codestarConnectionArn) THEN "connection" ELSE "codecommit"

\* if (props.repositoryName) CodePipelineSource.codeCommit(..)
\* else CodePipelineSource.connection(..)
SourceKind(p) ==
  IF Truthy(p.repositoryName) THEN "codecommit" ELSE "connection"

\* The classification the constructor asks for, with this.node.
ConstructorIsDefault(p, n) ==
  isDefaultBranch([node |-> n, defaultBranchName |-> p.defaultBranchName])

\* new Repository(..) on the default branch, Repository.fromRepositoryName
\* otherwise; no repository without props.repositoryName.
RepositoryFor(p, n) ==
  IF ~Truthy(p.repositoryName) THEN "undefined"
  ELSE IF ConstructorIsDefault(p, n) THEN "created"
  ELSE "imported"

\* A mutant: a created repository is destroyed on teardown by default.
RemovalPolicyForDefaultDestroy(p, n) ==
  IF ~Truthy(p.repositoryName) \/ ~ConstructorIsDefault(p, n) THEN "none"
  ELSE IF p.codeCommitRemovalPolicy = "undefined" THEN "DESTROY"
  ELSE p.codeCommitRemovalPolicy

\* props.codeCommitRemovalPolicy ?? RemovalPolicy.RETAIN, for a created
\* repository.
RemovalPolicyFor(p, n) ==
  IF RepositoryFor(p, n) # "created" THEN "none"
  ELSE IF p.codeCommitRemovalPolicy = "undefined" THEN "RETAIN"
  ELSE p.codeCommitRemovalPolicy

\* A mutant: the artifacts bucket is key-managed whatever is requested.
ArtifactEncryptionAlwaysKMS(p) == "KMS"

\* props.crossAccountKeys ? BucketEncryption.KMS : BucketEncryption.S3_MANAGED
ArtifactEncryptionFor(p) == IF p.crossAccountKeys THEN "KMS" ELSE "S3_MANAGED"

\* props.branchNamePrefixes && props.branchNamePrefixes.length > 0
\*   ? { BRANCH: branch } : undefined
SynthEnvFor(p) ==
  IF TruthyList(p.branchNamePrefixes) /\ Len(p.branchNamePrefixes) > 0
  THEN Branch(p)
  ELSE Undefined

\* A mutant: the fan-out does not ask for the default branch.
ShouldFanOutAnyBranch(p, n) == TruthyList(p.branchNamePrefixes)

\* props.branchNamePrefixes && PDKPipeline.isDefaultBranch({..})
ShouldFanOut(p, n) ==
  TruthyList(p.branchNamePrefixes) /\ ConstructorIsDefault(p, n)

\* A mutant: the stack is tagged on the default branch as well.
ShouldTagStackOnAnyBranch(p, n) == TruthyList(p.branchNamePrefixes)

\* else if (props.branchNamePrefixes)
ShouldTagStack(p, n) ==
  ~ShouldFanOut(p, n) /\ TruthyList(p.branchNamePrefixes)

\* Tags.of(Stack.of(this)).add("FeatureBranch", branch), and "RepoName"
StackTagsFor(p, n) ==
  IF ShouldTagStack(p, n)
  THEN {<<"FeatureBranch", Branch(p)>>}
         \cup (IF Truthy(p.repositoryName)
               THEN {<<"RepoName", p.repositoryName>>} ELSE {})
  ELSE {}

(***************************************************************************)
(* FeatureBranches.constructor: one Project "FeaturePipeline-<prefix>" per *)
(* prefix, in order; the second Project of one id throws.                  *)
(***************************************************************************)
\* The index of the first prefix that repeats an earlier one, 0 if none.
FirstDuplicate(prefixes) ==
  LET dups == {i \in 1..Len(prefixes) :
                 \E j \in 1..(i - 1) : prefixes[j] = prefixes[i]}
  IN  IF dups = {} THEN 0
      ELSE CHOOSE i \in dups : \A k \in dups : i <= k

\* A mutant: an empty prefix gets no project.
ProjectsOfTruthy(prefixes) == SelectSeq(prefixes, Truthy)

\* The projects that exist when the forEach ends or throws.
ProjectsOf(prefixes) ==
  IF FirstDuplicate(prefixes) = 0 THEN prefixes
  ELSE SubSeq(prefixes, 1, FirstDuplicate(prefixes) - 1)

NoFeatureBranches ==
  [created |-> FALSE, projects |-> <<>>, repositoryType |-> "none"]

\* new FeatureBranches(this, "FeatureBranchPipelines", {..})
FeatureBranchesFor(p, n) ==
  IF ShouldFanOut(p, n)
  THEN [created |-> TRUE,
        projects |-> ProjectsOf(p.branchNamePrefixes),
        repositoryType |->
          IF Truthy(p.repositoryName) THEN "codecommit" ELSE "codestar"]
  ELSE NoFeatureBranches

\* The fan-out throws on a repeated prefix.
FanOutThrows(p, n) ==
  ShouldFanOut(p, n) /\ FirstDuplicate(p.branchNamePrefixes) # 0

(***************************************************************************)
(* Inputs of the constructor.                                              *)
(***************************************************************************)
PrefixLists ==
  {UndefinedList, <<>>, ALL_BRANCHES, <<Feature>>, <<Feature, Feature>>}

PropsSet ==
  [repositoryName : {Undefined, EmptyString, Demo},
   codestarConnectionArn : {Undefined, Arn},
   repositoryOwnerAndName : {Undefined, OwnerAndName},
   defaultBranchName : DefaultBranchNames,
   branchNamePrefixes : PrefixLists,
   crossAccountKeys : BOOLEAN,
   codeCommitRemovalPolicy : {"undefined", "DESTROY"},
   sonarCodeScannerConfig : BOOLEAN]

NoProps ==
  [repositoryName |-> Undefined,
   codestarConnectionArn |-> Undefined,
   repositoryOwnerAndName |-> Undefined,
   defaultBranchName |-> Undefined,
   branchNamePrefixes |-> UndefinedList,
   crossAccountKeys |-> FALSE,
   codeCommitRemovalPolicy |-> "undefined",
   sonarCodeScannerConfig |-> FALSE]

NoSource == [kind |-> "none", branch |-> Undefined]

(***************************************************************************)
(* PDKPipeline.constructor                                                 *)
(***************************************************************************)
\* A mutant: the checks come after the access logs bucket is created.
ThrowAfterBucket(message) ==
  /\ status' = "failed"
  /\ error' = message
  /\ accessLogsEncryption' = "S3_MANAGED"
  /\ UNCHANGED <<codeRepository, removalPolicy, source,
                 artifactEncryption, artifactKey, synthEnv,
                 sonarCodeScannerConfig, branchNamePrefixes,
                 defaultBranchName, repositoryName, classifiedDefault,
                 featureBranches, stackTags, cloneUrlOutput>>

\* throw new Error(message) before anything is created
Throw(message) ==
  /\ status' = "failed"
  /\ error' = message
  /\ UNCHANGED <<codeRepository, removalPolicy, source, accessLogsEncryption,
                 artifactEncryption, artifactKey, synthEnv,
                 sonarCodeScannerConfig, branchNamePrefixes,
                 defaultBranchName, repositoryName, classifiedDefault,
                 featureBranches, stackTags, cloneUrlOutput>>

\* The constructor from this.node.setContext on.
Assemble(p, n) ==
  /\ codeRepository' = RepositoryFor(p, n)
  /\ removalPolicy' = RemovalPolicyFor(p, n)
  /\ source' = [kind |-> SourceKind(p), branch |-> Branch(p)]
  /\ accessLogsEncryption' = "S3_MANAGED"
  /\ artifactEncryption' = ArtifactEncryptionFor(p)
  /\ artifactKey' = p.crossAccountKeys
  /\ synthEnv' = SynthEnvFor(p)
  /\ sonarCodeScannerConfig' = p.sonarCodeScannerConfig
  /\ branchNamePrefixes' = p.branchNamePrefixes
  /\ defaultBranchName' = p.defaultBranchName
  /\ repositoryName' = p.repositoryName
  /\ classifiedDefault' = ConstructorIsDefault(p, n)
  /\ featureBranches' = FeatureBranchesFor(p, n)
  /\ IF FanOutThrows(p, n)
     THEN /\ status' = "failed"
          /\ error' = DuplicateMessage
          /\ stackTags' = {}
          /\ cloneUrlOutput' = FALSE
     ELSE /\ status' = "constructed"
          /\ error' = ""
          /\ stackTags' = StackTagsFor(p, n)
          /\ cloneUrlOutput' = (RepositoryFor(p, n) # "undefined")

Construct ==
  /\ status = "new"
  /\ \E p \in PropsSet, c \in ContextValues :
       /\ attached' = TRUE
       /\ props' = p
       /\ node' = NodeWith(c)
       /\ IF MissingRepository(p) THEN Throw(NeitherMessage)
          ELSE IF MissingOwnerAndName(p) THEN Throw(OwnerAndNameMessage)
          ELSE Assemble(p, NodeWith(c))
  /\ UNCHANGED <<docsVars, openApiVars, BRANCH, rootAspects, call, stages, returned,
                 built, sonarCodeScanner, suppressions, buildLog>>

(***************************************************************************)
(* PDKPipeline.addStage                                                    *)
(***************************************************************************)
\* A mutant: the stage is tagged whether or not prefixes are configured.
ShouldTagStageAnyPipeline(stageNode) ==
  ~isDefaultBranch([node |-> stageNode,
                    defaultBranchName |-> defaultBranchName])

\* A mutant: the negation of isDefaultBranch is lost.
ShouldTagStageOnDefault(stageNode) ==
  /\ TruthyList(branchNamePrefixes)
  /\ isDefaultBranch([node |-> stageNode,
                      defaultBranchName |-> defaultBranchName])

\* this.branchNamePrefixes && !PDKPipeline.isDefaultBranch({node: stage.node,
\*   defaultBranchName: this.defaultBranchName})
ShouldTagStage(stageNode) ==
  /\ TruthyList(branchNamePrefixes)
  /\ ~isDefaultBranch([node |-> stageNode,
                       defaultBranchName |-> defaultBranchName])

\* A mutant: the tag carries the normalized branch name.
FeatureBranchTagNormalized == normalizeBranchName(BRANCH)

\* Tags.of(stage).add("FeatureBranch", process.env.BRANCH!)
FeatureBranchTag == BRANCH

\* A mutant: the repository name is never put on the stage.
StageTagsForNoRepoName(stageNode) ==
  IF ShouldTagStage(stageNode)
  THEN {<<"FeatureBranch", FeatureBranchTag>>}
  ELSE {}

\* The tags addStage puts on the stage.
StageTagsFor(stageNode) ==
  IF ShouldTagStage(stageNode)
  THEN {<<"FeatureBranch", FeatureBranchTag>>}
         \cup (IF Truthy(repositoryName)
               THEN {<<"RepoName", repositoryName>>} ELSE {})
  ELSE {}

\* A mutant: the aspects are read from the stage, which has none yet.
CopiedAspectsOfStage == {}

\* Aspects.of(stage.node.root).all.forEach((aspect) =>
\*   Aspects.of(stage).add(aspect))
CopiedAspects == rootAspects

\* The options a caller may give: none, or an AddStageOpts object.
StageOptions == {"undefined", "options"}

NoDeployment == [position |-> 0, options |-> "undefined"]

\* CodePipeline.addStage(stage, options): the StageDeployment of the stage
\* it appends, at the given position.
CodePipelineAddStage(position, options) ==
  [position |-> position, options |-> options]

\* A mutant: addStage returns nothing.
AddStageResultDropped(deployment) == NoDeployment

\* return this.codePipeline.addStage(stage, options)
AddStageResult(deployment) == deployment

\* The stage as it is handed to this.codePipeline.addStage: its tags, the
\* aspects copied from the root of its tree, and the caller's options.  The
\* underlying pipeline takes no stage once it is built.
AddStage ==
  /\ status = "constructed"
  /\ ~built
  /\ Len(stages) < MaxStages
  /\ \E c \in ContextValues, options \in StageOptions :
       /\ stages' = Append(stages,
                           [node |-> NodeWith(c),
                            tags |-> StageTagsFor(NodeWith(c)),
                            aspects |-> CopiedAspects,
                            options |-> options])
       /\ returned' =
            AddStageResult(CodePipelineAddStage(Len(stages) + 1, options))
  /\ UNCHANGED <<docsVars, openApiVars, BRANCH, call, rootAspects, status, error,
                 attached, props, node, codeRepository, removalPolicy, source,
                 accessLogsEncryption, artifactEncryption, artifactKey,
                 synthEnv, sonarCodeScannerConfig, branchNamePrefixes,
                 defaultBranchName, repositoryName, classifiedDefault,
                 featureBranches, stackTags, cloneUrlOutput, built,
                 sonarCodeScanner, suppressions, buildLog>>

(***************************************************************************)
(* PDKPipeline.buildPipeline and suppressCDKViolations                     *)
(***************************************************************************)
SuppressedRules ==
  << <<"AwsSolutions-IAM5", "AwsPrototyping-IAMNoWildcardPermissions">>,
     <<"AwsSolutions-CB4",
       "AwsPrototyping-CodeBuildProjectKMSEncryptedArtifacts">>,
     <<"AwsSolutions-S1", "AwsPrototyping-S3BucketLoggingEnabled">> >>

\* suppressRules(rules, reason), once per rule pair, in order
SuppressSteps ==
  [i \in 1..Len(SuppressedRules) |-> <<"suppressRules">> \o SuppressedRules[i]]

\* A mutant: the scanner is created after the suppressions are applied.
BuildStepsScannerLast(config) ==
  << <<"codePipeline.buildPipeline">> >>
    \o SuppressSteps
    \o (IF config THEN << <<"SonarCodeScanner">> >> ELSE <<>>)

\* this.codePipeline.buildPipeline();
\* this.sonarCodeScannerConfig && new SonarCodeScanner(..);
\* this.suppressCDKViolations();
BuildSteps(config) ==
  << <<"codePipeline.buildPipeline">> >>
    \o (IF config THEN << <<"SonarCodeScanner">> >> ELSE <<>>)
    \o SuppressSteps

\* The underlying pipeline can be built once.
BuildPipeline ==
  /\ status = "constructed"
  /\ ~built
  /\ built' = TRUE
  /\ sonarCodeScanner' = sonarCodeScannerConfig
  /\ suppressions' = SuppressedRules
  /\ buildLog' = BuildSteps(sonarCodeScannerConfig)
  /\ UNCHANGED <<docsVars, openApiVars, BRANCH, call, rootAspects, status, error,
                 attached, props, node, codeRepository, removalPolicy, source,
                 accessLogsEncryption, artifactEncryption, artifactKey,
                 synthEnv, sonarCodeScannerConfig, branchNamePrefixes,
                 defaultBranchName, repositoryName, classifiedDefault,
                 featureBranches, stackTags, cloneUrlOutput, stages,
                 returned>>

(***************************************************************************)
(* OpenApiDefinition.constructor and the synthesis of its SampleFile.      *)
(* A file is known by what the template makes of the options: the title    *)
(* and the x-handler block; the rest of the sample is fixed text.          *)
(***************************************************************************)
UndefinedLanguages == <<"undefined">>

HandlerLanguageLists ==
  {UndefinedLanguages, <<>>, <<"typescript">>, <<"python", "typescript">>,
   <<"java">>}

OpenApiOptionsSet ==
  [title : {"Hello", "Other"}, handlerLanguages : HandlerLanguageLists]

NoFile == [exists |-> FALSE, title |-> "", handler |-> ""]

\* A specification the user wrote, which is no sample.
UserFile == [exists |-> TRUE, title |-> "Mine", handler |-> "hand-written"]

\* options.handlerLanguages?.[0]
firstHandlerLanguage(options) ==
  IF options.handlerLanguages = UndefinedLanguages
     \/ Len(options.handlerLanguages) = 0
  THEN "undefined"
  ELSE options.handlerLanguages[1]

\* The contents given to the SampleFile: the title, and the x-handler block
\* when there is a first handler language.
SampleContents(options) ==
  [exists |-> TRUE,
   title |-> options.title,
   handler |-> IF firstHandlerLanguage(options) # "undefined"
               THEN firstHandlerLanguage(options)
               ELSE ""]

\* A mutant: the file is written on every synthesis, as a generated file is.
SampleFileAlwaysWritten(file, contents) == contents

\* new SampleFile(project, this.openApiSpecificationPath, { contents }):
\* "Create a sample OpenAPI spec yaml if not defined".
SampleFileSynthesized(file, contents) ==
  IF file.exists THEN file ELSE contents

\* One run of the project: the definition is constructed with the options
\* and its sample file synthesized.
SynthesizeOpenApi ==
  /\ Len(openApiLog) < MaxRuns
  /\ \E options \in OpenApiOptionsSet :
       LET after ==
             SampleFileSynthesized(openApiFile, SampleContents(options))
       IN  /\ openApiFile' = after
           /\ openApiLog' = Append(openApiLog,
                                   [options |-> options,
                                    before |-> openApiFile,
                                    after |-> after])
  /\ UNCHANGED <<BRANCH, rootAspects, call, pipelineVars, docsVars>>

(***************************************************************************)
(* The documentation build script: main() and the handler of its promise.  *)
(* main runs to its end without suspending: each callback of the inner     *)
(* forEach is an async function, which runs to its first await and returns *)
(* a promise that forEach drops.  The callbacks go on after main returned. *)
(***************************************************************************)
\* SUPPORTED_LANGUAGES.map((l) => l.name)
SUPPORTED_LANGUAGES == {"typescript", "python", "java"}

\* The directories of packages that can have a .jsii file.
Packages == {"pipeline", "type-safe-api"}

\* The (language, package) pairs main can start a callback for.
Pairs == SUPPORTED_LANGUAGES \X Packages

NoTask == [state |-> "none", attempts |-> 0]

\* The runtime either ends the process with status 1 on an unhandled
\* rejection or warns and goes on, by its version and flags.
UnhandledRejectionModes == {"throw", "warn"}

\* backOff's numOfAttempts, within the bound of the model.
numOfAttempts == MaxAttempts

\* SUPPORTED_LANGUAGES..forEach((language) => { ..
\*   Object.keys(mappings).forEach(async (pkg) => { mkdirSync(..);
\*     const docs = await docgen.Documentation.forProject(..); .. }) })
\* Every callback has made its directory and waits for forProject.
StartedTasks(mappings) ==
  [k \in Pairs |->
     IF k[2] \in mappings
     THEN [state |-> "loading", attempts |-> 0]
     ELSE NoTask]

\* A callback's promise rejects; nothing awaits it and it has no handler.
RejectUnhandled(k) ==
  /\ docsUnhandled' = docsUnhandled \cup {k}
  /\ docsExit' = IF docsMode = "throw" THEN "1" ELSE docsExit

\* async function main(): the file system work before the loops fails, or
\* main starts every callback and returns, which resolves its promise.
DocsMain ==
  /\ docsExit = "running"
  /\ docsMain = "notStarted"
  /\ \E setupFails \in BOOLEAN :
       IF setupFails
       THEN /\ docsMain' = "rejected"
            /\ docsTasks' = docsTasks
       ELSE /\ docsMain' = "resolved"
            /\ docsTasks' = StartedTasks(docsMappings)
  /\ UNCHANGED <<docsMode, docsMappings, docsUnhandled, docsCaught, docsExit,
                 BRANCH, rootAspects, call, pipelineVars, openApiVars>>

\* await docgen.Documentation.forProject(..) settles for one callback.
DocsForProject ==
  /\ docsExit = "running"
  /\ \E k \in Pairs, loaded \in BOOLEAN :
       /\ docsTasks[k].state = "loading"
       /\ IF loaded
          THEN /\ docsTasks' = [docsTasks EXCEPT ![k].state = "rendering"]
               /\ UNCHANGED <<docsUnhandled, docsExit>>
          ELSE /\ docsTasks' = [docsTasks EXCEPT ![k].state = "failed"]
               /\ RejectUnhandled(k)
  /\ UNCHANGED <<docsMode, docsMappings, docsMain, docsCaught,
                 BRANCH, rootAspects, call, pipelineVars, openApiVars>>

\* One attempt of backOff at docs.toMarkdown(..): on success the callback
\* writes index.md; on failure backOff retries, and rejects after
\* numOfAttempts attempts.
DocsToMarkdown ==
  /\ docsExit = "running"
  /\ \E k \in Pairs, rendered \in BOOLEAN :
       /\ docsTasks[k].state = "rendering"
       /\ IF rendered
          THEN /\ docsTasks' = [docsTasks EXCEPT ![k].state = "written"]
               /\ UNCHANGED <<docsUnhandled, docsExit>>
          ELSE IF docsTasks[k].attempts + 1 < numOfAttempts
          THEN /\ docsTasks' =
                    [docsTasks EXCEPT ![k].attempts = @ + 1]
               /\ UNCHANGED <<docsUnhandled, docsExit>>
          ELSE /\ docsTasks' =
                    [docsTasks EXCEPT ![k].state = "failed",
                                      ![k].attempts = @ + 1]
               /\ RejectUnhandled(k)
  /\ UNCHANGED <<docsMode, docsMappings, docsMain, docsCaught,
                 BRANCH, rootAspects, call, pipelineVars, openApiVars>>

\* (async () => main())().catch((e) => { console.error(e); process.exit(1); })
DocsCatch ==
  /\ docsExit = "running"
  /\ docsMain = "rejected"
  /\ docsCaught' = TRUE
  /\ docsExit' = "1"
  /\ UNCHANGED <<docsMode, docsMappings, docsMain, docsTasks, docsUnhandled,
                 BRANCH, rootAspects, call, pipelineVars, openApiVars>>

\* The process ends by itself when main has resolved and no callback is
\* pending.
DocsExit ==
  /\ docsExit = "running"
  /\ docsMain = "resolved"
  /\ \A k \in Pairs : docsTasks[k].state \in {"none", "written", "failed"}
  /\ docsExit' = "0"
  /\ UNCHANGED <<docsMode, docsMappings, docsMain, docsTasks, docsUnhandled,
                 docsCaught,
                 BRANCH, rootAspects, call, pipelineVars, openApiVars>>

(***************************************************************************)
(* Specifications.                                                         *)
(***************************************************************************)
AspectSets == {{}, {"AwsSolutionsChecks"}}

Init ==
  /\ BRANCH \in EnvValues
  /\ rootAspects \in AspectSets
  /\ call = NoCall
  /\ status = "new"
  /\ error = ""
  /\ attached = FALSE
  /\ props = NoProps
  /\ node = NoNode
  /\ codeRepository = "undefined"
  /\ removalPolicy = "none"
  /\ source = NoSource
  /\ accessLogsEncryption = "none"
  /\ artifactEncryption = "none"
  /\ artifactKey = FALSE
  /\ synthEnv = Undefined
  /\ sonarCodeScannerConfig = FALSE
  /\ branchNamePrefixes = UndefinedList
  /\ defaultBranchName = Undefined
  /\ repositoryName = Undefined
  /\ classifiedDefault = FALSE
  /\ featureBranches = NoFeatureBranches
  /\ stackTags = {}
  /\ cloneUrlOutput = FALSE
  /\ stages = <<>>
  /\ returned = NoDeployment
  /\ built = FALSE
  /\ sonarCodeScanner = FALSE
  /\ suppressions = <<>>
  /\ buildLog = <<>>
  /\ openApiFile = NoFile
  /\ openApiLog = <<>>
  /\ docsMode = "throw"
  /\ docsMappings = {}
  /\ docsMain = "notStarted"
  /\ docsTasks = [k \in Pairs |-> NoTask]
  /\ docsUnhandled = {}
  /\ docsCaught = FALSE
  /\ docsExit = "running"

\* A pipeline is constructed, stages are added, the pipeline is built.
Next == Construct \/ AddStage \/ BuildPipeline

Spec == Init /\ [][Next]_vars

\* The host program assigns or deletes process.env.BRANCH between the
\* construction of the pipeline and the first addStage.
SetBranch ==
  /\ status = "constructed"
  /\ ~built
  /\ stages = <<>>
  /\ \E b \in EnvValues \ {BRANCH} : BRANCH' = b
  /\ UNCHANGED <<rootAspects, call, pipelineVars, openApiVars, docsVars>>

NextEnv == Next \/ SetBranch

SpecEnv == Init /\ [][NextEnv]_vars

\* The project is synthesized repeatedly, over a directory that has the
\* specification file or not.
InitOpenApi ==
  /\ BRANCH = Undefined
  /\ rootAspects = {}
  /\ call = NoCall
  /\ status = "new"
  /\ error = ""
  /\ attached = FALSE
  /\ props = NoProps
  /\ node = NoNode
  /\ codeRepository = "undefined"
  /\ removalPolicy = "none"
  /\ source = NoSource
  /\ accessLogsEncryption = "none"
  /\ artifactEncryption = "none"
  /\ artifactKey = FALSE
  /\ synthEnv = Undefined
  /\ sonarCodeScannerConfig = FALSE
  /\ branchNamePrefixes = UndefinedList
  /\ defaultBranchName = Undefined
  /\ repositoryName = Undefined
  /\ classifiedDefault = FALSE
  /\ featureBranches = NoFeatureBranches
  /\ stackTags = {}
  /\ cloneUrlOutput = FALSE
  /\ stages = <<>>
  /\ returned = NoDeployment
  /\ built = FALSE
  /\ sonarCodeScanner = FALSE
  /\ suppressions = <<>>
  /\ buildLog = <<>>
  /\ openApiFile \in {NoFile, UserFile}
  /\ openApiLog = <<>>
  /\ docsMode = "throw"
  /\ docsMappings = {}
  /\ docsMain = "notStarted"
  /\ docsTasks = [k \in Pairs |-> NoTask]
  /\ docsUnhandled = {}
  /\ docsCaught = FALSE
  /\ docsExit = "running"

NextOpenApi == SynthesizeOpenApi

SpecOpenApi == InitOpenApi /\ [][NextOpenApi]_vars

\* The documentation script is run once, over a packages directory.
InitDocs ==
  /\ BRANCH = Undefined
  /\ rootAspects = {}
  /\ call = NoCall
  /\ status = "new"
  /\ error = ""
  /\ attached = FALSE
  /\ props = NoProps
  /\ node = NoNode
  /\ codeRepository = "undefined"
  /\ removalPolicy = "none"
  /\ source = NoSource
  /\ accessLogsEncryption = "none"
  /\ artifactEncryption = "none"
  /\ artifactKey = FALSE
  /\ synthEnv = Undefined
  /\ sonarCodeScannerConfig = FALSE
  /\ branchNamePrefixes = UndefinedList
  /\ defaultBranchName = Undefined
  /\ repositoryName = Undefined
  /\ classifiedDefault = FALSE
  /\ featureBranches = NoFeatureBranches
  /\ stackTags = {}
  /\ cloneUrlOutput = FALSE
  /\ stages = <<>>
  /\ returned = NoDeployment
  /\ built = FALSE
  /\ sonarCodeScanner = FALSE
  /\ suppressions = <<>>
  /\ buildLog = <<>>
  /\ openApiFile = NoFile
  /\ openApiLog = <<>>
  /\ docsMode \in UnhandledRejectionModes
  /\ docsMappings \in SUBSET Packages
  /\ docsMain = "notStarted"
  /\ docsTasks = [k \in Pairs |-> NoTask]
  /\ docsUnhandled = {}
  /\ docsCaught = FALSE
  /\ docsExit = "running"

NextDocs ==
  DocsMain \/ DocsForProject \/ DocsToMarkdown \/ DocsCatch \/ DocsExit

SpecDocs == InitDocs /\ [][NextDocs]_vars

\* The static methods are called, in any order, in one environment.
NextStatic == CallNormalizeBranchName \/ CallIsDefaultBranch \/ CallGetBranchPrefix

SpecStatic == Init /\ [][NextStatic]_vars

(***************************************************************************)
(* Properties.                                                             *)
(*                                                                         *)
(* An option is supplied, and BRANCH is present, when its value is         *)
(* neither undefined nor the empty string: the code tests all of them by   *)
(* truthiness.                                                             *)
(***************************************************************************)
\* The class [A-Za-z0-9-], in code units.
BranchSafeCodeUnits == (48..57) \cup (65..90) \cup (97..122) \cup {45}

\* The default branch name a caller has configured: the property, then the
\* context value "defaultBranchName" of the node, then "mainline".
ConfiguredDefaultName(p) ==
  IF Truthy(p.defaultBranchName) THEN p.defaultBranchName
  ELSE IF p.node.defined /\ Truthy(p.node.defaultBranchName)
       THEN p.node.defaultBranchName
  ELSE <<109, 97, 105, 110, 108, 105, 110, 101>>

\* The branch is not the default branch for a caller with properties p.
OnFeatureBranch(p) == Truthy(BRANCH) /\ BRANCH # ConfiguredDefaultName(p)

\* The properties the constructor classifies the branch with.
ConstructorProps == [node |-> node, defaultBranchName |-> props.defaultBranchName]

\* The properties addStage classifies the branch with, for stage i.
StageProps(i) ==
  [node |-> stages[i].node, defaultBranchName |-> defaultBranchName]

HasTag(tags, key) == \E t \in tags : t[1] = key

\* C1: whenever the constructor has run on properties with neither
\* repositoryName nor codestarConnectionArn, whatever the other options and
\* BRANCH, it has thrown "Either repositoryName or codestarConnectionArn
\* must be provided".
C1_NeitherReferenceFails ==
  (/\ status # "new"
   /\ ~Truthy(props.repositoryName)
   /\ ~Truthy(props.codestarConnectionArn))
  => /\ status = "failed"
     /\ error = "Either repositoryName or codestarConnectionArn must be provided"

C1_Witness ==
  /\ status = "failed"
  /\ error = "Either repositoryName or codestarConnectionArn must be provided"
  /\ props.repositoryName = Undefined
  /\ props.codestarConnectionArn = Undefined
  /\ Truthy(props.repositoryOwnerAndName)
  /\ TruthyList(props.branchNamePrefixes)
  /\ Truthy(BRANCH)

\* C2: whenever the constructor has run on properties with a
\* codestarConnectionArn and no repositoryOwnerAndName, also when a
\* repositoryName is given, it has thrown "repositoryOwnerAndName is
\* required when using codestarConnectionArn".
C2_ConnectionWithoutOwnerFails ==
  (/\ status # "new"
   /\ Truthy(props.codestarConnectionArn)
   /\ ~Truthy(props.repositoryOwnerAndName))
  => /\ status = "failed"
     /\ error = "repositoryOwnerAndName is required when using codestarConnectionArn"

C2_Witness ==
  /\ status = "failed"
  /\ error = "repositoryOwnerAndName is required when using codestarConnectionArn"
  /\ props.repositoryName = Demo
  /\ props.codestarConnectionArn = Arn
  /\ props.repositoryOwnerAndName = Undefined

C4_NormalizeReplacesInPlace ==
  call.method = "normalizeBranchName"
  => /\ Len(call.string) = Len(call.branchName)
     /\ \A i \in 1..Len(call.branchName) :
          call.string[i] = IF call.branchName[i] \in BranchSafeCodeUnits
                           THEN call.branchName[i]
                           ELSE 45
     /\ call.branchName = FeatureFoo1 => call.string = FeatureFoo1Normalized

C4_Witness ==
  /\ call.method = "normalizeBranchName"
  /\ call.branchName = FeatureFoo1
  /\ call.string = FeatureFoo1Normalized

\* C5: with BRANCH absent, isDefaultBranch returns true whatever default
\* branch name is configured by property or by context.
C5_AbsentBranchIsDefault ==
  (call.method = "isDefaultBranch" /\ ~Truthy(BRANCH)) => call.boolean

C5_Witness ==
  /\ call.method = "isDefaultBranch"
  /\ BRANCH = Undefined
  /\ call.props.defaultBranchName = Main
  /\ call.props.node = NodeWith(Main)
  /\ call.boolean

\* C6: with BRANCH present, isDefaultBranch returns true exactly when
\* BRANCH equals the configured default branch name, "mainline" when none
\* is configured.
C6_PresentBranchComparedToDefault ==
  (call.method = "isDefaultBranch" /\ Truthy(BRANCH))
  => (call.boolean <=> BRANCH = ConfiguredDefaultName(call.props))

C6_Witness ==
  /\ call.method = "isDefaultBranch"
  /\ BRANCH = Main
  /\ call.props.defaultBranchName = Undefined
  /\ call.props.node = NodeWith(Main)
  /\ call.boolean

\* C7, as claimed: with BRANCH present, the source is bound to BRANCH and
\* the pipeline is not treated as the default branch: no repository is
\* created and no feature trigger is provisioned.
C7_PresentBranchNeverDefault ==
  (status = "constructed" /\ Truthy(BRANCH))
  => /\ source.branch = BRANCH
     /\ ~classifiedDefault
     /\ codeRepository # "created"
     /\ ~featureBranches.created

\* C7, amended: with BRANCH present, the source is bound to BRANCH, and the
\* pipeline is treated as the default branch exactly when BRANCH equals the
\* configured default branch name; when it differs no repository is created
\* and no feature trigger is provisioned.
C7_PresentBranchDefaultOnlyIfEqual ==
  (status = "constructed" /\ Truthy(BRANCH))
  => /\ source.branch = BRANCH
     /\ classifiedDefault <=> BRANCH = ConfiguredDefaultName(ConstructorProps)
     /\ BRANCH # ConfiguredDefaultName(ConstructorProps)
          => /\ codeRepository # "created"
             /\ featureBranches = NoFeatureBranches

C7_Witness ==
  /\ status = "constructed"
  /\ BRANCH = FeatureX
  /\ props.repositoryName = Demo
  /\ props.defaultBranchName = Main
  /\ props.branchNamePrefixes = <<Feature>>
  /\ source.branch = FeatureX
  /\ codeRepository = "imported"
  /\ featureBranches = NoFeatureBranches

\* C8: a stage added to a pipeline with branchNamePrefixes configured, on a
\* branch that is not the default branch, has the tag FeatureBranch with
\* the raw BRANCH as its value, and the tag RepoName, with the repository
\* name as its value, exactly when a repository name is configured.
C8_FeatureStageTagValues ==
  \A i \in 1..Len(stages) :
    (TruthyList(props.branchNamePrefixes) /\ OnFeatureBranch(StageProps(i)))
    => /\ \A t \in stages[i].tags :
            t[1] = "FeatureBranch" => t[2] = BRANCH
       /\ <<"FeatureBranch", BRANCH>> \in stages[i].tags
       /\ HasTag(stages[i].tags, "RepoName") <=> Truthy(props.repositoryName)
       /\ \A t \in stages[i].tags :
            t[1] = "RepoName" => t[2] = props.repositoryName

C8_Witness ==
  /\ BRANCH = FeatureX
  /\ props.repositoryName = Demo
  /\ Len(stages) > 0
  /\ stages[1].tags = {<<"FeatureBranch", FeatureX>>, <<"RepoName", Demo>>}

\* C9, as claimed: every stage added on a branch that is not the default
\* branch has the tag FeatureBranch, and the tag RepoName if a repository
\* name is configured, whether or not branchNamePrefixes is configured.
C9_EveryFeatureStageTagged ==
  \A i \in 1..Len(stages) :
    OnFeatureBranch(StageProps(i))
    => /\ HasTag(stages[i].tags, "FeatureBranch")
       /\ Truthy(props.repositoryName) => HasTag(stages[i].tags, "RepoName")

\* C9, amended: a stage added on a branch that is not the default branch
\* has the tag FeatureBranch, and the tag RepoName if a repository name is
\* configured, when branchNamePrefixes is configured; it has no tag when
\* branchNamePrefixes is not configured.
C9_FeatureStageTaggedIffPrefixes ==
  \A i \in 1..Len(stages) :
    OnFeatureBranch(StageProps(i))
    => IF TruthyList(props.branchNamePrefixes)
       THEN /\ HasTag(stages[i].tags, "FeatureBranch")
            /\ Truthy(props.repositoryName)
                 => HasTag(stages[i].tags, "RepoName")
       ELSE stages[i].tags = {}

C9_Witness ==
  /\ Len(stages) > 0
  /\ OnFeatureBranch(StageProps(1))
  /\ props.branchNamePrefixes = UndefinedList
  /\ props.repositoryName = Demo
  /\ stages[1].tags = {}

\* C10: in every state, feature triggers exist only if branchNamePrefixes
\* is configured and the constructor classified the branch as the default
\* branch.
C10_TriggersOnlyOnDefaultWithPrefixes ==
  Len(featureBranches.projects) > 0
  => /\ TruthyList(props.branchNamePrefixes)
     /\ classifiedDefault
     /\ ~OnFeatureBranch(ConstructorProps)

C10_Witness ==
  /\ status = "constructed"
  /\ BRANCH = Main
  /\ props.repositoryName = Demo
  /\ featureBranches.projects = ALL_BRANCHES

C12_AllBranchesScenario ==
  (/\ status # "new"
   /\ props.repositoryName = Demo
   /\ BRANCH = Undefined
   /\ props.branchNamePrefixes = <<EmptyString>>
   /\ ~(Truthy(props.codestarConnectionArn)
        /\ ~Truthy(props.repositoryOwnerAndName)))
  => /\ status = "constructed"
     /\ featureBranches.created
     /\ featureBranches.projects = <<EmptyString>>
     /\ \A i \in 1..Len(stages) : stages[i].tags = {}

C12_Witness ==
  /\ status = "constructed"
  /\ props.repositoryName = Demo
  /\ props.codestarConnectionArn = Undefined
  /\ BRANCH = Undefined
  /\ props.branchNamePrefixes = <<EmptyString>>
  /\ Len(featureBranches.projects) = 1
  /\ Len(stages) = MaxStages

\* C13: with repositoryName "Demo", BRANCH "feature/x", defaultBranchName
\* "mainline" and branchNamePrefixes ["feature"], the constructor classifies
\* the branch as not the default branch, no feature trigger exists, and
\* every stage added has exactly the tags FeatureBranch = feature/x and
\* RepoName = Demo.
C13_FeatureBranchScenario ==
  (/\ status = "constructed"
   /\ props.repositoryName = Demo
   /\ BRANCH = FeatureX
   /\ props.defaultBranchName = DEFAULT_BRANCH_NAME
   /\ props.branchNamePrefixes = <<Feature>>)
  => /\ ~classifiedDefault
     /\ ~featureBranches.created
     /\ featureBranches.projects = <<>>
     /\ \A i \in 1..Len(stages) :
          stages[i].tags =
            {<<"FeatureBranch", FeatureX>>, <<"RepoName", Demo>>}

C13_Witness ==
  /\ status = "constructed"
  /\ props.repositoryName = Demo
  /\ BRANCH = FeatureX
  /\ props.defaultBranchName = DEFAULT_BRANCH_NAME
  /\ props.branchNamePrefixes = <<Feature>>
  /\ Len(stages) = MaxStages
  /\ stages[1].node = NodeWith(Main)

C15_HostedRepositoryCreatedOrLookedUp ==
  (status = "constructed" /\ Truthy(props.repositoryName))
  => IF OnFeatureBranch(ConstructorProps)
     THEN codeRepository = "imported" /\ removalPolicy = "none"
     ELSE /\ codeRepository = "created"
          /\ removalPolicy =
               IF props.codeCommitRemovalPolicy = "undefined"
               THEN "RETAIN"
               ELSE props.codeCommitRemovalPolicy

C15_Witness ==
  /\ status = "constructed"
  /\ props.repositoryName = Demo
  /\ props.codeCommitRemovalPolicy = "undefined"
  /\ BRANCH = DEFAULT_BRANCH_NAME
  /\ codeRepository = "created"
  /\ removalPolicy = "RETAIN"

\* C16: whenever the fan-out runs (branchNamePrefixes configured, default
\* branch, no configuration error), the constructor succeeds and there is
\* exactly one feature trigger per element of branchNamePrefixes, in the
\* caller's order, a repeated prefix giving two triggers.
C16_OneTriggerPerPrefix ==
  (/\ status # "new"
   /\ ~(~Truthy(props.repositoryName) /\ ~Truthy(props.codestarConnectionArn))
   /\ ~(Truthy(props.codestarConnectionArn)
        /\ ~Truthy(props.repositoryOwnerAndName))
   /\ TruthyList(props.branchNamePrefixes)
   /\ ~OnFeatureBranch(ConstructorProps))
  => /\ status = "constructed"
     /\ featureBranches.projects = props.branchNamePrefixes

\* C17: the FeatureBranches construct is created only if the constructor
\* classified the branch as the default branch and the configured prefix
\* list is not empty.
C17_FanOutOnlyForNonEmptyPrefixes ==
  featureBranches.created
  => /\ classifiedDefault
     /\ TruthyList(props.branchNamePrefixes)
     /\ Len(props.branchNamePrefixes) > 0

\* C19: on every branch, each stage handed to the underlying pipeline has
\* every aspect registered on the root of its tree, the underlying
\* addStage gets the caller's stage and options, and addStage returns the
\* StageDeployment the underlying call made for that stage.
C19_AspectsCopiedAndDelegated ==
  /\ \A i \in 1..Len(stages) : rootAspects \subseteq stages[i].aspects
  /\ Len(stages) > 0
       => returned = [position |-> Len(stages),
                      options |-> stages[Len(stages)].options]

C19_Witness ==
  /\ rootAspects = {"AwsSolutionsChecks"}
  /\ BRANCH = FeatureX
  /\ Len(stages) = MaxStages
  /\ stages[1].tags # {}
  /\ stages[1].aspects = {"AwsSolutionsChecks"}
  /\ stages[MaxStages].options = "options"
  /\ returned = [position |-> MaxStages, options |-> "options"]

\* C18: every addStage classifies the branch as the constructor did and
\* uses the raw branch name the constructor used, also when BRANCH changes
\* after construction; stated for the stages whose node gives the context
\* of the pipeline's node, on a pipeline with branchNamePrefixes.
C18_ClassificationDerivedOnce ==
  \A i \in 1..Len(stages) :
    (TruthyList(branchNamePrefixes) /\ stages[i].node = node)
    => /\ stages[i].tags # {} <=> ~classifiedDefault
       /\ \A t \in stages[i].tags :
            t[1] = "FeatureBranch" => t[2] = source.branch

\* C20: a synthesis writes the sample file only if the file is absent and
\* leaves an existing file as it is; a synthesis over an existing file
\* completes; the file written is the sample for the options; and after two
\* syntheses with the same options the file is the same as after the first.
C20_SampleFileSkipIfPresent ==
  \A i \in 1..Len(openApiLog) :
    /\ openApiLog[i].after.exists
    /\ openApiLog[i].before.exists
         => openApiLog[i].after = openApiLog[i].before
    /\ ~openApiLog[i].before.exists
         => /\ openApiLog[i].after.title = openApiLog[i].options.title
            /\ openApiLog[i].after.handler =
                 IF openApiLog[i].options.handlerLanguages
                      \in {UndefinedLanguages, <<>>}
                 THEN ""
                 ELSE openApiLog[i].options.handlerLanguages[1]
    /\ \A j \in 1..Len(openApiLog) :
         (i < j /\ openApiLog[i].options = openApiLog[j].options)
         => openApiLog[j].after = openApiLog[i].after

C20_Witness ==
  /\ Len(openApiLog) = 2
  /\ openApiLog[1].options = openApiLog[2].options
  /\ ~openApiLog[1].before.exists
  /\ openApiLog[1].after.handler = "python"
  /\ openApiLog[2].before = openApiLog[1].after
  /\ openApiFile = openApiLog[1].after

\* C21: once the constructor has created the buckets, the artifacts bucket
\* is KMS-encrypted and has the key "ArtifactKey" exactly when
\* crossAccountKeys is requested, and is S3-managed without a key otherwise;
\* the access logs bucket is S3-managed in both cases.
C21_ArtifactEncryptionFollowsCrossAccountKeys ==
  artifactEncryption # "none"
  => /\ accessLogsEncryption = "S3_MANAGED"
     /\ IF props.crossAccountKeys
        THEN artifactEncryption = "KMS" /\ artifactKey
        ELSE artifactEncryption = "S3_MANAGED" /\ ~artifactKey

C21_Witness ==
  /\ status = "constructed"
  /\ ~props.crossAccountKeys
  /\ artifactEncryption = "S3_MANAGED"
  /\ ~artifactKey
  /\ accessLogsEncryption = "S3_MANAGED"

\* C22: a call of buildPipeline has first finalized the underlying
\* pipeline, then created the code scanner exactly when
\* sonarCodeScannerConfig was configured, then applied the three
\* suppression rule pairs, in their order, with or without a scanner; before
\* the call none of the steps has happened.
C22_BuildStepsInOrder ==
  IF built
  THEN /\ buildLog[1] = <<"codePipeline.buildPipeline">>
       /\ sonarCodeScanner <=> props.sonarCodeScannerConfig
       /\ IF props.sonarCodeScannerConfig
          THEN /\ Len(buildLog) = 5
               /\ buildLog[2] = <<"SonarCodeScanner">>
          ELSE /\ Len(buildLog) = 4
               /\ \A i \in 1..Len(buildLog) :
                    buildLog[i] # <<"SonarCodeScanner">>
       /\ SubSeq(buildLog, Len(buildLog) - 2, Len(buildLog)) =
            << <<"suppressRules", "AwsSolutions-IAM5",
                 "AwsPrototyping-IAMNoWildcardPermissions">>,
               <<"suppressRules", "AwsSolutions-CB4",
                 "AwsPrototyping-CodeBuildProjectKMSEncryptedArtifacts">>,
               <<"suppressRules", "AwsSolutions-S1",
                 "AwsPrototyping-S3BucketLoggingEnabled">> >>
       /\ Len(suppressions) = 3
  ELSE buildLog = <<>> /\ ~sonarCodeScanner /\ suppressions = <<>>

C22_Witness ==
  /\ built
  /\ props.sonarCodeScannerConfig
  /\ sonarCodeScanner
  /\ Len(buildLog) = 5
  /\ Len(stages) > 0

\* C23: whenever the constructor has run on properties with a
\* repositoryName, a codestarConnectionArn and a repositoryOwnerAndName, it
\* has succeeded, the source is the CodeCommit repository and not the
\* connection, and a fan-out has the repositoryType "codecommit".
C23_BothReferencesUseCodeCommit ==
  (/\ status # "new"
   /\ Truthy(props.repositoryName)
   /\ Truthy(props.codestarConnectionArn)
   /\ Truthy(props.repositoryOwnerAndName))
  => /\ status = "constructed"
     /\ source.kind = "codecommit"
     /\ codeRepository # "undefined"
     /\ featureBranches.created
          => featureBranches.repositoryType = "codecommit"

\* C24: if the constructor provisioned feature triggers, no stage added
\* afterwards has the tag FeatureBranch, whatever context the node of the
\* pipeline and the node of the stage give.
C24_TriggersExcludeStageTags ==
  Len(featureBranches.projects) > 0
  => \A i \in 1..Len(stages) : ~HasTag(stages[i].tags, "FeatureBranch")

\* C25: whenever the constructor classified the branch as the default
\* branch, the branch of the source is the default branch name that
\* isDefaultBranch compares BRANCH with: the property, then the context
\* value "defaultBranchName" of the pipeline's node, then "mainline".
C25_DefaultSourceBranchIsDefaultName ==
  (status = "constructed" /\ classifiedDefault)
  => source.branch = ConfiguredDefaultName(ConstructorProps)

\* C26: the Synth step has the environment entry BRANCH exactly when the
\* pipeline has a fan-out in the sense of the other two decisions (on the
\* default branch the FeatureBranches construct is created, on another
\* branch the stack and the stages are tagged), and its value is the branch
\* of the source.
C26_SynthEnvIffFanOut ==
  status = "constructed"
  => /\ synthEnv # Undefined => synthEnv = source.branch
     /\ IF classifiedDefault
        THEN synthEnv # Undefined <=> featureBranches.created
        ELSE synthEnv # Undefined <=> stackTags # {}
     /\ \A i \in 1..Len(stages) :
          OnFeatureBranch(StageProps(i))
          => (synthEnv # Undefined <=> stages[i].tags # {})

\* C27: a pipeline constructed with branchNamePrefixes on a branch that is
\* not the default branch has tagged its stack with FeatureBranch = the raw
\* BRANCH, and with RepoName = the repository name exactly when one is
\* configured; on the default branch, or without branchNamePrefixes, the
\* constructor has added no tag to the stack.
C27_StackTaggedOnFeatureBranch ==
  /\ (/\ status = "constructed"
      /\ TruthyList(props.branchNamePrefixes)
      /\ OnFeatureBranch(ConstructorProps))
     => stackTags =
          {<<"FeatureBranch", BRANCH>>}
            \cup (IF Truthy(props.repositoryName)
                  THEN {<<"RepoName", props.repositoryName>>}
                  ELSE {})
  /\ (~TruthyList(props.branchNamePrefixes)
        \/ ~OnFeatureBranch(ConstructorProps))
     => stackTags = {}

C27_Witness ==
  /\ status = "constructed"
  /\ BRANCH = FeatureX
  /\ props.branchNamePrefixes = <<Feature>>
  /\ props.repositoryName = Demo
  /\ node = NodeWith(Main)
  /\ stackTags = {<<"FeatureBranch", FeatureX>>, <<"RepoName", Demo>>}

\* C28: getBranchPrefix returns "" whenever the branch is the default
\* branch for the same inputs, and otherwise BRANCH with every character
\* outside [A-Za-z0-9-] replaced by '-', followed by '-'; its result has
\* only characters of [A-Za-z0-9-] and is empty or ends with '-'.
C28_BranchPrefixSafe ==
  call.method = "getBranchPrefix"
  => /\ IF OnFeatureBranch(call.props)
        THEN /\ Len(call.string) = Len(BRANCH) + 1
             /\ \A i \in 1..Len(BRANCH) :
                  call.string[i] = IF BRANCH[i] \in BranchSafeCodeUnits
                                   THEN BRANCH[i]
                                   ELSE 45
        ELSE call.string = <<>>
     /\ \A i \in 1..Len(call.string) : call.string[i] \in BranchSafeCodeUnits
     /\ call.string = <<>> \/ call.string[Len(call.string)] = 45

C28_Witness ==
  /\ call.method = "getBranchPrefix"
  /\ BRANCH = FeatureX
  /\ call.props.defaultBranchName = Main
  /\ call.string = <<102, 101, 97, 116, 117, 114, 101, 45, 120, 45>>

\* C29: when the promise of main() is resolved, the index.md of every
\* (language, package) pair is written: no callback started by main is
\* pending or failed.
C29_MainResolvesAfterAllWritten ==
  docsMain = "resolved"
  => \A k \in Pairs :
       k[2] \in docsMappings => docsTasks[k].state = "written"

\* C30: a failure of the callback of any (language, package) pair, in
\* loading the project or in rendering after the retries, rejects main(),
\* and once the process has ended the catch handler has logged the error
\* and the exit status is 1.
C30_FailuresReachCatch ==
  \A k \in Pairs :
    docsTasks[k].state = "failed"
    => /\ docsMain = "rejected"
       /\ docsExit # "running" => (docsCaught /\ docsExit = "1")

====
